---- MODULE Spec2Model ----
(***************************************************************************)
(* A model of stereodemo: the command-line entry point and its frame loop  *)
(* (main.py), the FileListSource image-pair source (main.py), the tunable  *)
(* parameters and the OpenCV block-matching wrappers (methods.py) and the  *)
(* RAFT-Stereo wrapper with its model-file cache (raft_stereo.py).         *)
(*                                                                         *)
(* Four specifications share the variables below:                          *)
(*   SpecMain     main(): source selection and the frame loop              *)
(*   SpecSource   FileListSource.get_next_pair over a file system          *)
(*   SpecMethods  IntParameter / EnumParameter and StereoBM / StereoSGBM   *)
(*   SpecRaft     RaftStereo.compute_disparity and _load_model             *)
(***************************************************************************)
EXTENDS Integers, Sequences, FiniteSets, TLC

VARIABLES
    pc,          \* position of the program / of the modelled object
    args,        \* the parsed command line (parse_args)
    source,      \* the input source object built by main()
    method_list, \* main()'s method_list
    viz,         \* whether visualizer.Visualizer(...) has been constructed
    exit_status, \* the statuses passed to sys.exit (empty: never called)
    printed,     \* messages written by print(), oldest first
    iterLog,     \* calls made by the current iteration of the frame loop
    frames,      \* number of loop iterations started
    elapsed,     \* last value of `elapsed` (main.py line 99), in ticks
    fs,          \* the set of files that exist
    calls,       \* number of get_next_pair / compute calls made
    last,        \* outcome of the last call of the operation under study
    bm,          \* StereoBMMethod.parameters
    sgbm,        \* StereoSGBMMethod.parameters
    raft         \* RaftStereo.parameters and loader state

vars == <<pc, args, source, method_list, viz, exit_status, printed, iterLog,
          frames, elapsed, fs, calls, last, bm, sgbm, raft>>

\* Python's None where a text is expected, where a path is expected and
\* where a list is expected (argparse's nargs='+' never yields an empty list,
\* so the empty list is free to stand for None).
None == "None"

NoPath == [parent |-> "", name |-> ""]

NoList == <<>>

(***************************************************************************)
(* Bounds of the model.                                                    *)
(***************************************************************************)
MaxImages == 4      \* longest --images list tried by SpecMain
MaxFrames == 3      \* frame-loop iterations explored
TicksPerFrame == 3  \* clock resolution: ticks in one 1/30 s frame budget
MaxElapsed == 5     \* largest elapsed time of one iteration, in ticks

(***************************************************************************)
(* Paths.  A path is a record of its parent folder and its file name, so   *)
(* that `path.parent / name` can be computed.                              *)
(***************************************************************************)
Path(parent, name) == [parent |-> parent, name |-> name]

\* str(path)
PathStr(path) == path.parent \o "/" \o path.name

Folders == <<"dirA", "dirB">>

\* The i-th path of an --images list: paths alternate between two folders.
ImagePath(i) == Path(Folders[1 + (i % 2)], "img" \o ToString(i) \o ".png")

ImagesArg(n) == [i \in 1..n |-> ImagePath(i)]

UserCalibrationPath == Path("dirC", "user_calibration.json")

(***************************************************************************)
(* main.py: parse_args.  args.images is None or a list of one or more      *)
(* paths (nargs='+'), args.oak a flag, args.calibration None or a path.    *)
(***************************************************************************)
parse_args ==
    [images : {NoList} \cup {ImagesArg(n) : n \in 1..MaxImages},
     oak : BOOLEAN,
     calibration : {NoPath, UserCalibrationPath}]

(***************************************************************************)
(* main.py: FileListSource.__init__.  The assert of line 31 decides        *)
(* whether construction succeeds.                                          *)
(***************************************************************************)
FileListSource_assert(file_list) == Len(file_list) % 2 = 0

FileListSource_init(file_list, calibration) ==
    LET N == Len(file_list) \div 2
    IN  [kind |-> "FileListSource",
         left_images_path |-> SubSeq(file_list, 1, N),
         right_images_path |-> SubSeq(file_list, N + 1, Len(file_list)),
         index |-> 0,
         user_provided_calibration_path |-> calibration]

NoSource ==
    [kind |-> None, left_images_path |-> <<>>, right_images_path |-> <<>>,
     index |-> 0, user_provided_calibration_path |-> NoPath]

OakdSource_init == [NoSource EXCEPT !.kind = "OakdSource"]

\* main.py lines 72-76: the default method list.
DefaultMethods == <<"StereoBMMethod", "StereoSGBMMethod", "CREStereo">>

NoLast == [op |-> None]

(***************************************************************************)
(* methods.py: IntParameter, EnumParameter and the validity functions.     *)
(***************************************************************************)
MaxOf(a, b) == IF a >= b THEN a ELSE b

\* odd_only with the parity test the wrong way round.
odd_only_parity_inverted(x) == IF x % 2 = 0 THEN x ELSE x + 1

\* methods.py line 36-37.  Python's % takes the sign of the divisor, as
\* TLA+'s does for a positive divisor.
odd_only(x) == IF x % 2 = 1 THEN x ELSE x + 1

\* methods.py line 39-40.  Python's // rounds down, as \div does.
multiple_of_16(x) == MaxOf(16, (x \div 16) * 16)

\* methods.py line 18: the default to_valid accepts anything.
accept_anything(x) == x

\* The to_valid field of an IntParameter names one of the three functions.
to_valid(f, x) ==
    CASE f = "odd_only" -> odd_only(x)
      [] f = "multiple_of_16" -> multiple_of_16(x)
      [] OTHER -> accept_anything(x)

IntParameter(value, min, max, f) ==
    [value |-> value, min |-> min, max |-> max, to_valid |-> f]

\* methods.py line 20-21: IntParameter.set_value.
set_value(p, x) == [p EXCEPT !.value = to_valid(p.to_valid, x)]

EnumParameter(index, values) == [index |-> index, values |-> values]

\* methods.py line 29-30: EnumParameter.set_index.
set_index(p, idx) == [p EXCEPT !.index = idx]

\* methods.py line 32-34: EnumParameter.value.  Python lists count from 0.
enum_value(p) == p.values[p.index + 1]

(***************************************************************************)
(* methods.py: StereoBMMethod.reset_defaults (lines 66-79).                *)
(***************************************************************************)
BMNames ==
    {"Num Disparities", "Block Size", "TextureThreshold", "Uniqueness Ratio",
     "SpeckleWindowSize", "SpeckleRange", "Disp12MaxDiff", "PreFilterCap",
     "PreFilterSize"}

StereoBM_reset_defaults ==
    [n \in BMNames |->
        CASE n = "Num Disparities" -> IntParameter(64, 16, 256, "multiple_of_16")
          [] n = "Block Size" -> IntParameter(9, 3, 63, "odd_only")
          [] n = "TextureThreshold" -> IntParameter(10, 0, 100, "identity")
          [] n = "Uniqueness Ratio" -> IntParameter(15, 0, 100, "identity")
          [] n = "SpeckleWindowSize" -> IntParameter(100, 0, 1000, "identity")
          [] n = "SpeckleRange" -> IntParameter(32, 0, 64, "identity")
          [] n = "Disp12MaxDiff" -> IntParameter(1, 0, 64, "identity")
          [] n = "PreFilterCap" -> IntParameter(31, 1, 63, "identity")
          [] n = "PreFilterSize" -> IntParameter(9, 5, 255, "odd_only")]

(***************************************************************************)
(* methods.py: StereoSGBMMethod.reset_defaults (lines 107-128).  "Mode" is *)
(* the one EnumParameter; it is kept beside the integer parameters.        *)
(***************************************************************************)
SGBMNames ==
    {"Num Disparities", "Block Size", "P1", "P2", "Uniqueness Ratio",
     "SpeckleWindowSize", "SpeckleRange", "Disp12MaxDiff", "PreFilterCap"}

SGBMModes == <<"MODE_SGBM", "MODE_HH", "MODE_SGBM_3WAY", "MODE_HH4">>

StereoSGBM_reset_defaults ==
    LET nchannels == 1
    IN  [ints |->
           [n \in SGBMNames |->
              CASE n = "Num Disparities" -> IntParameter(64, 2, 256, "identity")
                [] n = "Block Size" -> IntParameter(3, 3, 63, "odd_only")
                [] n = "P1" -> IntParameter(8 * nchannels * 3 * 3, 0, 2000, "identity")
                [] n = "P2" -> IntParameter(32 * nchannels * 3 * 3, 0, 2000, "identity")
                [] n = "Uniqueness Ratio" -> IntParameter(10, 0, 100, "identity")
                [] n = "SpeckleWindowSize" -> IntParameter(100, 0, 1000, "identity")
                [] n = "SpeckleRange" -> IntParameter(32, 0, 64, "identity")
                [] n = "Disp12MaxDiff" -> IntParameter(1, 0, 64, "identity")
                [] n = "PreFilterCap" -> IntParameter(63, 1, 128, "identity")],
         Mode |-> EnumParameter(0, SGBMModes)]

(***************************************************************************)
(* The block matchers of OpenCV, as far as the wrappers see them: an       *)
(* object holding the configured fields, and compute, which returns the    *)
(* disparity in fixed point (16 times the disparity in pixels).            *)
(***************************************************************************)
Unset == -1

\* methods.py lines 85-86: cv2.StereoBM_create(numDisparities, blockSize).
StereoBM_create(numDisparities, blockSize) ==
    [numDisparities |-> numDisparities, blockSize |-> blockSize,
     textureThreshold |-> Unset, uniquenessRatio |-> Unset,
     speckleWindowSize |-> Unset, speckleRange |-> Unset,
     disp12MaxDiff |-> Unset, preFilterCap |-> Unset, preFilterSize |-> Unset]

\* methods.py lines 131-132: cv2.StereoSGBM_create(numDisparities, blockSize).
StereoSGBM_create(numDisparities, blockSize) ==
    [numDisparities |-> numDisparities, blockSize |-> blockSize,
     mode |-> Unset, P1 |-> Unset, P2 |-> Unset, preFilterCap |-> Unset,
     uniquenessRatio |-> Unset, speckleWindowSize |-> Unset,
     speckleRange |-> Unset, disp12MaxDiff |-> Unset]

\* methods.py lines 99 and 147: the fixed-point scale of the matcher output.
DisparityScale == 16

\* raw / np.float32(16.0): a float, kept exactly as whole pixels and
\* sixteenths (raw = -16, the matcher's "no match", gives -1.0).
FixedPointToPixels(raw) ==
    [whole |-> raw \div DisparityScale, sixteenths |-> raw % DisparityScale]

\* StereoBM_configure with the two pre-filter values handed to each other's
\* setter.
StereoBM_configure_swapped_prefilter(p) ==
    LET block_size == IF p["Block Size"].value % 2 = 0
                      THEN p["Block Size"].value + 1
                      ELSE p["Block Size"].value
        m0 == StereoBM_create(p["Num Disparities"].value, block_size)
    IN  [m0 EXCEPT !.textureThreshold = p["TextureThreshold"].value,
                   !.uniquenessRatio = p["Uniqueness Ratio"].value,
                   !.speckleWindowSize = p["SpeckleWindowSize"].value,
                   !.speckleRange = p["SpeckleRange"].value,
                   !.disp12MaxDiff = p["Disp12MaxDiff"].value,
                   !.preFilterCap = p["PreFilterSize"].value,
                   !.preFilterSize = p["PreFilterCap"].value]

\* methods.py lines 82-93: the matcher StereoBMMethod.compute_disparity
\* builds from the parameters `p`.
StereoBM_configure(p) ==
    LET block_size == IF p["Block Size"].value % 2 = 0
                      THEN p["Block Size"].value + 1
                      ELSE p["Block Size"].value
        m0 == StereoBM_create(p["Num Disparities"].value, block_size)
        m1 == [m0 EXCEPT !.textureThreshold = p["TextureThreshold"].value]
        m2 == [m1 EXCEPT !.uniquenessRatio = p["Uniqueness Ratio"].value]
        m3 == [m2 EXCEPT !.speckleWindowSize = p["SpeckleWindowSize"].value]
        m4 == [m3 EXCEPT !.speckleRange = p["SpeckleRange"].value]
        m5 == [m4 EXCEPT !.disp12MaxDiff = p["Disp12MaxDiff"].value]
        m6 == [m5 EXCEPT !.preFilterCap = p["PreFilterCap"].value]
    IN  [m6 EXCEPT !.preFilterSize = p["PreFilterSize"].value]

\* methods.py lines 131-141: the matcher StereoSGBMMethod.compute_disparity
\* builds from the parameters `p`.
StereoSGBM_configure(p) ==
    LET m0 == StereoSGBM_create(p.ints["Num Disparities"].value,
                                p.ints["Block Size"].value)
        m1 == [m0 EXCEPT !.mode = p.Mode.index]
        m2 == [m1 EXCEPT !.P1 = p.ints["P1"].value]
        m3 == [m2 EXCEPT !.P2 = p.ints["P2"].value]
        m4 == [m3 EXCEPT !.preFilterCap = p.ints["PreFilterCap"].value]
        m5 == [m4 EXCEPT !.uniquenessRatio = p.ints["Uniqueness Ratio"].value]
        m6 == [m5 EXCEPT !.speckleWindowSize = p.ints["SpeckleWindowSize"].value]
        m7 == [m6 EXCEPT !.speckleRange = p.ints["SpeckleRange"].value]
    IN  [m7 EXCEPT !.disp12MaxDiff = p.ints["Disp12MaxDiff"].value]

(***************************************************************************)
(* raft_stereo.py: the URL table (lines 21-42), the parameters (lines      *)
(* 60-67) and the file name of a model (lines 78-84).                      *)
(***************************************************************************)
UrlBase ==
    "https://github.com/nburrus/stereodemo/releases/download/v0.1-raft-stereo/models/"

\* The keys of `urls`, in the order of the table.
UrlKeys ==
    {"raft-stereo-eth3d-cpu-128x160.scripted.pt",
     "raft-stereo-eth3d-cpu-256x320.scripted.pt",
     "raft-stereo-eth3d-cpu-480x640.scripted.pt",
     "raft-stereo-eth3d-cpu-736x1280.scripted.pt",
     "raft-stereo-eth3d-cuda-128x160.scripted.pt",
     "raft-stereo-eth3d-cuda-256x320.scripted.pt",
     "raft-stereo-eth3d-cuda-480x640.scripted.pt",
     "raft-stereo-eth3d-cuda-736x1280.scripted.pt",
     "raft-stereo-fast-cpu-128x160.scripted.pt",
     "raft-stereo-fast-cpu-256x320.scripted.pt",
     "raft-stereo-fast-cpu-480x640.scripted.pt",
     "raft-stereo-fast-cpu-736x1280.scripted.pt",
     "raft-stereo-fast-cuda-128x160.scripted.pt",
     "raft-stereo-fast-cuda-256x320.scripted.pt",
     "raft-stereo-fast-cuda-480x640.scripted.pt",
     "raft-stereo-fast-cuda-736x1280.scripted.pt",
     "raft-stereo-middlebury-cuda-128x160.scripted.pt",
     "raft-stereo-middlebury-cuda-256x320.scripted.pt",
     "raft-stereo-middlebury-cuda-480x640.scripted.pt",
     "raft-stereo-middlebury-cuda-736x1280.scripted.pt"}

urls == [k \in UrlKeys |-> UrlBase \o k]

\* A parameter text such as "640x480", as the list of its characters.
ShapeValues ==
    << <<"1", "6", "0", "x", "1", "2", "8">>,
       <<"3", "2", "0", "x", "2", "5", "6">>,
       <<"6", "4", "0", "x", "4", "8", "0">>,
       <<"1", "2", "8", "0", "x", "7", "3", "6">> >>

ModelValues ==
    <<"fast-cpu", "middlebury-cpu", "eth3d-cpu", "fast-cuda", "middlebury-cuda",
      "eth3d-cuda">>

RaftStereo_reset_defaults ==
    [Shape |-> EnumParameter(2, ShapeValues),
     Model |-> EnumParameter(0, ModelValues)]

\* str.split('x') of a text holding one 'x': the parts before and after it.
split_x(s) ==
    LET i == CHOOSE j \in 1..Len(s) : s[j] = "x"
    IN  <<SubSeq(s, 1, i - 1), SubSeq(s, i + 1, Len(s))>>

\* int() of a list of decimal digits.
RECURSIVE int_of(_)
int_of(s) ==
    IF s = <<>> THEN 0
    ELSE 10 * int_of(SubSeq(s, 1, Len(s) - 1))
         + (CHOOSE d \in 0..9 : ToString(d) = s[Len(s)])

\* raft_stereo.py lines 78-80: (cols, rows) of the "Shape" parameter.
target_size(p) ==
    LET parts == split_x(enum_value(p.Shape))
    IN  <<int_of(parts[1]), int_of(parts[2])>>

\* raft_stereo.py line 84: the file name is rows x cols.
model_file_name(variant, cols, rows) ==
    "raft-stereo-" \o variant \o "-" \o ToString(rows) \o "x" \o ToString(cols)
        \o ".scripted.pt"

\* raft_stereo.py line 19: the folder of the model files.
models_path == Path("stereodemo", "models")

\* models_path / name
ModelFile(name) == Path(PathStr(models_path), name)

(***************************************************************************)
(* Values every specification starts from for the state it does not use.   *)
(***************************************************************************)
NoArgs == [images |-> NoList, oak |-> FALSE, calibration |-> NoPath]

RaftStereo_init ==
    [parameters |-> RaftStereo_reset_defaults, net |-> NoPath,
     loaded_model_path |-> NoPath, download_log |-> <<>>]


(***************************************************************************)
(* SpecMain: main() of main.py.                                            *)
(*                                                                         *)
(* pc: "start"      before line 78                                         *)
(*     "loop_top"   at line 94, about to start an iteration                *)
(*     "waitKey"    update_once returned true, about to run line 98        *)
(*     "pace"       cv2.waitKey returned, about to run lines 99-102        *)
(*     "done"       the loop was left by break: main returns               *)
(*     "exited"     sys.exit was called                                    *)
(*     "raised"     an exception left main                                 *)
(***************************************************************************)
\* main.py line 100: the frame rate of the pacing, 1/30.0 s per frame.
FrameRate == 30

\* The clock counts ticks; TicksPerFrame of them make 1/FrameRate s.
TicksPerSecond == FrameRate * TicksPerFrame

\* main.py line 100: 1/30.0 s, in ticks.
FrameBudget == TicksPerSecond \div FrameRate

MainInit ==
    /\ pc = "start"
    /\ args \in parse_args
    /\ source = NoSource
    /\ method_list = DefaultMethods
    /\ viz = FALSE
    /\ exit_status = <<>>
    /\ printed = <<>>
    /\ iterLog = <<>>
    /\ frames = 0
    /\ elapsed = 0
    /\ fs = {}
    /\ calls = 0
    /\ last = NoLast
    /\ bm = StereoBM_reset_defaults
    /\ sgbm = StereoSGBM_reset_defaults
    /\ raft = RaftStereo_init

LoopUntouched == UNCHANGED <<iterLog, frames, elapsed>>

OthersUntouched == UNCHANGED <<fs, calls, last, bm, sgbm, raft>>

\* main.py lines 80-81 and 90-92: --images was given.
SelectImages ==
    /\ pc = "start"
    /\ args.images /= NoList
    /\ IF FileListSource_assert(args.images)
       THEN /\ source' = FileListSource_init(args.images, args.calibration)
            /\ viz' = TRUE
            /\ pc' = "loop_top"
       ELSE /\ pc' = "raised"
            /\ UNCHANGED <<source, viz>>
    /\ UNCHANGED <<args, method_list, exit_status, printed>>
    /\ LoopUntouched
    /\ OthersUntouched

\* SelectOak putting StereoFromOakInputSource last instead of first.
SelectOakAppends ==
    /\ pc = "start"
    /\ args.images = NoList
    /\ args.oak
    /\ source' = OakdSource_init
    /\ method_list' = method_list \o <<"StereoFromOakInputSource">>
    /\ viz' = TRUE
    /\ pc' = "loop_top"
    /\ UNCHANGED <<args, exit_status, printed>>
    /\ LoopUntouched
    /\ OthersUntouched

\* main.py lines 82-85 and 90-92: no --images, but --oak.
SelectOak ==
    /\ pc = "start"
    /\ args.images = NoList
    /\ args.oak
    /\ source' = OakdSource_init
    /\ method_list' = <<"StereoFromOakInputSource">> \o method_list
    /\ viz' = TRUE
    /\ pc' = "loop_top"
    /\ UNCHANGED <<args, exit_status, printed>>
    /\ LoopUntouched
    /\ OthersUntouched

\* main.py lines 86-88: neither was given.
SelectNone ==
    /\ pc = "start"
    /\ args.images = NoList
    /\ ~args.oak
    /\ printed' = Append(printed, "You need to specify --oak or --images")
    /\ exit_status' = Append(exit_status, 1)
    /\ pc' = "exited"
    /\ UNCHANGED <<args, source, method_list, viz>>
    /\ LoopUntouched
    /\ OthersUntouched

\* main.py lines 94-97: the iteration starts, takes start_time and calls
\* viz.update_once(), which returns true, returns false or raises.
UpdateOnce ==
    /\ pc = "loop_top"
    /\ frames < MaxFrames
    /\ frames' = frames + 1
    /\ \E r \in {"True", "False", "raise"} :
        /\ iterLog' = << <<"update_once", r>> >>
        /\ pc' = CASE r = "True" -> "waitKey"
                   [] r = "False" -> "done"
                   [] OTHER -> "raised"
    /\ UNCHANGED <<args, source, method_list, viz, exit_status, printed, elapsed>>
    /\ OthersUntouched

\* main.py line 98: cv2.waitKey(1).
WaitKey ==
    /\ pc = "waitKey"
    /\ iterLog' = Append(iterLog, <<"waitKey", 1>>)
    /\ pc' = "pace"
    /\ UNCHANGED <<args, source, method_list, viz, exit_status, printed, frames,
                   elapsed>>
    /\ OthersUntouched

\* Pace without the test of line 101: it sleeps whatever time_to_sleep is.
PaceSleepAlways(e) ==
    LET time_to_sleep == FrameBudget - e
    IN  /\ pc = "pace"
        /\ elapsed' = e
        /\ iterLog' = Append(iterLog, <<"sleep", time_to_sleep>>)
        /\ pc' = "loop_top"
        /\ UNCHANGED <<args, source, method_list, viz, exit_status, printed, frames>>
        /\ OthersUntouched

\* main.py lines 99-102: the pacing; `e` is time.time() - start_time.
Pace(e) ==
    LET time_to_sleep == FrameBudget - e
    IN  /\ pc = "pace"
        /\ elapsed' = e
        /\ iterLog' = IF time_to_sleep > 0
                      THEN Append(iterLog, <<"sleep", time_to_sleep>>)
                      ELSE iterLog
        /\ pc' = "loop_top"
        /\ UNCHANGED <<args, source, method_list, viz, exit_status, printed, frames>>
        /\ OthersUntouched

PaceStep == \E e \in 0..MaxElapsed : Pace(e)

MainNext == SelectImages \/ SelectOak \/ SelectNone \/ UpdateOnce \/ WaitKey \/ PaceStep

SpecMain == MainInit /\ [][MainNext]_vars

(***************************************************************************)
(* Claims about main().                                                    *)
(***************************************************************************)
\* C1: every iteration of the frame loop calls update_once exactly once and
\* first; the loop goes on while it returns true and is left at the first
\* false return with no waitKey and no sleep after it; a continuing
\* iteration runs update_once, then waitKey, then a sleep that happens only
\* when the elapsed time is below the frame budget, for the positive
\* remainder of the budget.
C1_FrameLoopOrder ==
    /\ Len(iterLog) <= 3
    /\ frames > 0 => /\ iterLog /= <<>>
                     /\ iterLog[1][1] = "update_once"
    /\ frames = 0 => iterLog = <<>>
    /\ \A i \in 2..Len(iterLog) : iterLog[i][1] /= "update_once"
    /\ Len(iterLog) >= 2 => /\ iterLog[1][2] = "True"
                            /\ iterLog[2] = <<"waitKey", 1>>
    /\ Len(iterLog) = 3 => /\ iterLog[3][1] = "sleep"
                           /\ iterLog[3][2] > 0
                           /\ iterLog[3][2] = FrameBudget - elapsed
    /\ (iterLog /= <<>> /\ iterLog[1][2] = "False") =>
            /\ pc = "done"
            /\ Len(iterLog) = 1
    /\ (iterLog /= <<>> /\ iterLog[1][2] = "True") =>
            pc \in {"waitKey", "pace", "loop_top"}
    /\ pc = "done" => iterLog = << <<"update_once", "False">> >>
    /\ pc = "waitKey" => Len(iterLog) = 1
    /\ pc = "pace" => Len(iterLog) = 2
    /\ (pc = "loop_top" /\ frames > 0) =>
            /\ elapsed < FrameBudget => Len(iterLog) = 3
            /\ elapsed >= FrameBudget => Len(iterLog) = 2

\* A second iteration has ended after overrunning its budget, without sleep.
C1_Witness ==
    /\ pc = "loop_top"
    /\ frames >= 2
    /\ elapsed > FrameBudget
    /\ iterLog = << <<"update_once", "True">>, <<"waitKey", 1>> >>

NeverEnteredLoop == ~viz /\ frames = 0 /\ iterLog = <<>>

OakMethods == <<"StereoFromOakInputSource">> \o DefaultMethods

\* C2 as stated: --images always gives a FileListSource with the three
\* default methods, --oak alone an OakdSource with StereoFromOakInputSource
\* first, and neither exits with status 1 before any Visualizer exists.
C2_SelectsSourceAsStated ==
    pc /= "start" =>
        /\ args.images /= NoList =>
                /\ source.kind = "FileListSource"
                /\ method_list = DefaultMethods
        /\ (args.images = NoList /\ args.oak) =>
                /\ source.kind = "OakdSource"
                /\ method_list = OakMethods
        /\ (args.images = NoList /\ ~args.oak) =>
                /\ pc = "exited"
                /\ exit_status = <<1>>
                /\ printed = <<"You need to specify --oak or --images">>
                /\ NeverEnteredLoop

\* C2 amended: as stated when --images holds an even number of paths; an
\* odd number of paths fails the assertion of FileListSource.__init__, and
\* then there is no source, no Visualizer and no frame loop.
C2_SelectsSource ==
    pc /= "start" =>
        /\ (args.images /= NoList /\ Len(args.images) % 2 = 0) =>
                /\ source.kind = "FileListSource"
                /\ source.left_images_path \o source.right_images_path = args.images
                /\ source.user_provided_calibration_path = args.calibration
                /\ method_list = DefaultMethods
                /\ viz
                /\ pc /= "exited"
        /\ (args.images /= NoList /\ Len(args.images) % 2 = 1) =>
                /\ pc = "raised"
                /\ source.kind = None
                /\ exit_status = <<>>
                /\ NeverEnteredLoop
        /\ (args.images = NoList /\ args.oak) =>
                /\ source.kind = "OakdSource"
                /\ method_list = OakMethods
                /\ viz
                /\ pc /= "exited"
        /\ (args.images = NoList /\ ~args.oak) =>
                /\ pc = "exited"
                /\ exit_status = <<1>>
                /\ printed = <<"You need to specify --oak or --images">>
                /\ source.kind = None
                /\ NeverEnteredLoop

\* --images and --oak were both given and the loop runs on a FileListSource.
C2_Witness ==
    /\ args.images /= NoList
    /\ args.oak
    /\ source.kind = "FileListSource"
    /\ method_list = DefaultMethods
    /\ frames >= 1

(***************************************************************************)
(* SpecSource: FileListSource.get_next_pair (main.py lines 38-69) over a   *)
(* file system.  pc is "ready" while the source can be asked for a pair    *)
(* and "raised" once an exception has left get_next_pair: nothing in       *)
(* main.py catches it, so the program ends there.                          *)
(***************************************************************************)
MaxPairs == 3   \* most image pairs in a file list
MaxCalls == 7   \* get_next_pair calls explored

CalibrationFileName == "stereodemo_calibration.json"

\* path.parent / name
InFolder(folder, name) == Path(folder, name)

\* The files get_next_pair can look at for a list of n pairs.
SourceFiles(n) ==
    {ImagePath(i) : i \in 1..(2 * n)}
        \cup {InFolder(Folders[j], CalibrationFileName) : j \in 1..Len(Folders)}
        \cup {UserCalibrationPath}

\* numpy shape (rows, cols, channels) of the image stored at `path`.
ImageOnDisk(path) ==
    LET i == CHOOSE j \in 1..(2 * (MaxPairs + 1)) : ImagePath(j) = path
    IN  [shape |-> <<4 + 2 * i, 6 + 4 * i, 3>>]

NoImage == [shape |-> <<>>]

\* main.py lines 42-43: cv2.imread returns None for a file it cannot read.
load_image(files, path) == IF path \in files THEN ImageOnDisk(path) ELSE NoImage

\* A float, kept exactly as numerator and denominator.
Ratio(n, d) == <<n, d>>

Calibration(width, height, fx, fy, cx0, cy0, baseline_meters) ==
    [width |-> width, height |-> height, fx |-> fx, fy |-> fy,
     cx0 |-> cx0, cy0 |-> cy0, baseline_meters |-> baseline_meters]

NoCalibration ==
    Calibration(0, 0, Ratio(0, 1), Ratio(0, 1), Ratio(0, 1), Ratio(0, 1), Ratio(0, 1))

\* visualizer.Calibration.from_json of the text of a calibration file: each
\* file holds its own record.
Calibration_from_json(path) ==
    LET w == IF path = UserCalibrationPath THEN 1280
             ELSE IF path.parent = Folders[1] THEN 640 ELSE 320
    IN  Calibration(w, (3 * w) \div 4, Ratio(w, 1), Ratio(w, 1), Ratio(w, 2),
                    Ratio(3 * w, 8), Ratio(1, 10))

\* main.py lines 58-64: the calibration assumed for an image without one.
fake_calibration(left_image) ==
    Calibration(left_image.shape[2],
                left_image.shape[1],
                Ratio(left_image.shape[1] * 8, 10),
                Ratio(left_image.shape[1] * 8, 10),
                Ratio(left_image.shape[2], 2),
                Ratio(left_image.shape[1], 2),
                Ratio(75, 1000))

InputPair(left_image, right_image, calibration, status) ==
    [left_image |-> left_image, right_image |-> right_image,
     calibration |-> calibration, status |-> status]

NoInputPair == InputPair(NoImage, NoImage, NoCalibration, "")

NoCalibrationWarning(calibration_path) ==
    "Warning: no calibration file found " \o PathStr(calibration_path)
        \o ". Using default calibration, the point cloud won't be accurate."

SourceInit ==
    /\ pc = "ready"
    /\ \E n \in 1..MaxPairs :
        /\ args \in [images : {ImagesArg(2 * n)}, oak : {FALSE},
                     calibration : {NoPath, UserCalibrationPath}]
        /\ fs \in SUBSET SourceFiles(n)
    /\ source = FileListSource_init(args.images, args.calibration)
    /\ method_list = DefaultMethods
    /\ viz = FALSE
    /\ exit_status = <<>>
    /\ printed = <<>>
    /\ iterLog = <<>>
    /\ frames = 0
    /\ elapsed = 0
    /\ calls = 0
    /\ last = NoLast
    /\ bm = StereoBM_reset_defaults
    /\ sgbm = StereoSGBM_reset_defaults
    /\ raft = RaftStereo_init

\* main.py lines 38-69.  The fields of `last` beyond the returned InputPair
\* record what the call did: its number k, the index it used, the paths it
\* chose, whether it looked for the per-folder file and whether it warned.
get_next_pair ==
    LET self == source
        index0 == IF self.index >= Len(self.left_images_path) THEN 0 ELSE self.index
        left_image_path == self.left_images_path[index0 + 1]
        left_image == load_image(fs, left_image_path)
        user == self.user_provided_calibration_path
        folder_file == InFolder(left_image_path.parent, CalibrationFileName)
        warns == user = NoPath /\ folder_file \notin fs
        calibration_path == IF user = NoPath
                            THEN IF folder_file \in fs THEN folder_file ELSE NoPath
                            ELSE user
        exception == IF calibration_path /= NoPath
                     THEN IF calibration_path \in fs THEN None ELSE "FileNotFoundError"
                     ELSE IF left_image = NoImage THEN "AttributeError" ELSE None
        calib == IF calibration_path /= NoPath
                 THEN Calibration_from_json(calibration_path)
                 ELSE fake_calibration(left_image)
        right_image_path == self.right_images_path[index0 + 1]
        status == PathStr(left_image_path) \o " / " \o PathStr(right_image_path)
        done == [op |-> "get_next_pair", k |-> calls, index0 |-> index0,
                 left_image_path |-> left_image_path,
                 right_image_path |-> right_image_path,
                 looked_in_folder |-> (user = NoPath),
                 warned |-> warns,
                 calibration_path |-> calibration_path,
                 exception |-> exception,
                 result |-> NoInputPair]
    IN  /\ pc = "ready"
        /\ calls < MaxCalls
        /\ calls' = calls + 1
        /\ printed' = IF warns
                      THEN Append(printed, NoCalibrationWarning(folder_file))
                      ELSE printed
        /\ IF exception /= None
           THEN /\ source' = [self EXCEPT !.index = index0]
                /\ last' = done
                /\ pc' = "raised"
           ELSE /\ source' = [self EXCEPT !.index = index0 + 1]
                /\ last' = [done EXCEPT !.result =
                               InputPair(load_image(fs, left_image_path),
                                         load_image(fs, right_image_path),
                                         calib, status)]
                /\ pc' = "ready"
        /\ UNCHANGED <<args, method_list, viz, exit_status, iterLog, frames, elapsed,
                       fs, bm, sgbm, raft>>

SourceNext == get_next_pair

SpecSource == SourceInit /\ [][SourceNext]_vars

(***************************************************************************)
(* Claims about FileListSource.get_next_pair.                              *)
(***************************************************************************)
Called == last.op = "get_next_pair"

NumPairs == Len(args.images) \div 2

\* Equality of two exact floats.
SameRatio(a, b) == a[1] * b[2] = b[1] * a[2]

\* C3: the k-th call (k = 0, 1, ...) returns the pair
\* (file_list[k mod N], file_list[N + (k mod N)]), wrapping around after the
\* last pair, and after every call the index lies in 1..N.
C3_CyclesThroughPairs ==
    Called =>
        /\ last.exception = None
        /\ last.left_image_path = args.images[(last.k % NumPairs) + 1]
        /\ last.right_image_path = args.images[NumPairs + (last.k % NumPairs) + 1]
        /\ last.result.status
              = PathStr(args.images[(last.k % NumPairs) + 1]) \o " / "
                  \o PathStr(args.images[NumPairs + (last.k % NumPairs) + 1])
        /\ source.index \in 1..NumPairs

\* C4: with no user calibration and no stereodemo_calibration.json beside
\* the left image, the call warns and still returns a pair whose calibration
\* is (width, height, fx = fy = 0.8 * height, cx = width / 2,
\* cy = height / 2, baseline 0.075) of the left image; with a user
\* calibration that path is used and the folder is never looked into.
C4_DefaultCalibrationFallback ==
    Called =>
        /\ (args.calibration = NoPath
            /\ InFolder(last.left_image_path.parent, CalibrationFileName) \notin fs) =>
                LET img == ImageOnDisk(last.left_image_path)
                    width == img.shape[2]
                    height == img.shape[1]
                    c == last.result.calibration
                IN  /\ last.warned
                    /\ printed /= <<>>
                    /\ last.exception = None
                    /\ c.width = width
                    /\ c.height = height
                    /\ SameRatio(c.fx, Ratio(8 * height, 10))
                    /\ SameRatio(c.fy, Ratio(8 * height, 10))
                    /\ SameRatio(c.cx0, Ratio(width, 2))
                    /\ SameRatio(c.cy0, Ratio(height, 2))
                    /\ SameRatio(c.baseline_meters, Ratio(75, 1000))
        /\ args.calibration /= NoPath =>
                /\ last.calibration_path = args.calibration
                /\ ~last.looked_in_folder

\* C5: a file that is not found never makes get_next_pair fail: for a
\* missing left image, right image or user calibration file the call warns,
\* returns an InputPair and advances the index by one.
C5_MissingFileNeverFails ==
    Called =>
        LET needed == {last.left_image_path, last.right_image_path}
                         \cup (IF args.calibration = NoPath THEN {}
                               ELSE {args.calibration})
        IN  /\ last.exception = None
            /\ source.index = last.index0 + 1
            /\ (needed \ fs /= {}) => last.warned

(***************************************************************************)
(* SpecMethods: the parameters of StereoBMMethod and StereoSGBMMethod      *)
(* under set_value / set_index / reset_defaults, and compute_disparity.    *)
(* pc names the operation that ran last.                                   *)
(***************************************************************************)
MaxOps == 3   \* operations on the two methods explored

\* Values handed to set_value: the ends of the declared range and, for a
\* parameter with a validity function, their neighbours.
TryValues(p) ==
    IF p.to_valid = "identity"
    THEN {p.min, p.max}
    ELSE {p.min, p.min + 1, p.max - 1, p.max}

\* Fixed-point outputs of a matcher for one pixel; -16 marks "no match".
RawDisparities == {-16, 0, 37}

MethodsInit ==
    /\ pc = "__init__"
    /\ bm = StereoBM_reset_defaults
    /\ sgbm = StereoSGBM_reset_defaults
    /\ calls = 0
    /\ last = NoLast
    /\ args = NoArgs
    /\ source = NoSource
    /\ method_list = DefaultMethods
    /\ viz = FALSE
    /\ exit_status = <<>>
    /\ printed = <<>>
    /\ iterLog = <<>>
    /\ frames = 0
    /\ elapsed = 0
    /\ fs = {}
    /\ raft = RaftStereo_init

MethodsRest ==
    UNCHANGED <<args, source, method_list, viz, exit_status, printed, iterLog,
                frames, elapsed, fs, raft>>

Op(name) ==
    /\ calls < MaxOps
    /\ calls' = calls + 1
    /\ pc' = name

\* IntParameter.set_value on a parameter of StereoBMMethod.
BM_set_value ==
    \E n \in BMNames : \E x \in TryValues(bm[n]) :
        /\ Op("set_value")
        /\ bm' = [bm EXCEPT ![n] = set_value(@, x)]
        /\ last' = NoLast
        /\ UNCHANGED sgbm
        /\ MethodsRest

\* IntParameter.set_value on a parameter of StereoSGBMMethod.
SGBM_set_value ==
    \E n \in SGBMNames : \E x \in TryValues(sgbm.ints[n]) :
        /\ Op("set_value")
        /\ sgbm' = [sgbm EXCEPT !.ints[n] = set_value(@, x)]
        /\ last' = NoLast
        /\ UNCHANGED bm
        /\ MethodsRest

\* EnumParameter.set_index on "Mode" of StereoSGBMMethod.
SGBM_set_index ==
    \E idx \in 0..(Len(SGBMModes) - 1) :
        /\ Op("set_index")
        /\ sgbm' = [sgbm EXCEPT !.Mode = set_index(@, idx)]
        /\ last' = NoLast
        /\ UNCHANGED bm
        /\ MethodsRest

\* methods.py lines 66-79: parameters.update(defaults).
BM_reset_defaults ==
    /\ Op("reset_defaults")
    /\ bm' = StereoBM_reset_defaults
    /\ last' = NoLast
    /\ UNCHANGED sgbm
    /\ MethodsRest

\* methods.py lines 107-128: parameters.update(defaults).
SGBM_reset_defaults ==
    /\ Op("reset_defaults")
    /\ sgbm' = StereoSGBM_reset_defaults
    /\ last' = NoLast
    /\ UNCHANGED bm
    /\ MethodsRest

\* methods.py lines 81-100: StereoBMMethod.compute_disparity.  `last` keeps
\* the matcher as configured when compute ran, how often compute ran, its
\* raw output, the returned disparity and the parameters found on entry.
BM_compute_disparity ==
    \E raw \in RawDisparities :
        /\ Op("StereoBM.compute_disparity")
        /\ last' = [op |-> "StereoBM.compute_disparity",
                    matcher |-> StereoBM_configure(bm),
                    computes |-> 1,
                    raw |-> raw,
                    disparity |-> FixedPointToPixels(raw),
                    parameters_on_entry |-> bm]
        /\ UNCHANGED <<bm, sgbm>>
        /\ MethodsRest

\* methods.py lines 130-148: StereoSGBMMethod.compute_disparity.
SGBM_compute_disparity ==
    \E raw \in RawDisparities :
        /\ Op("StereoSGBM.compute_disparity")
        /\ last' = [op |-> "StereoSGBM.compute_disparity",
                    matcher |-> StereoSGBM_configure(sgbm),
                    computes |-> 1,
                    raw |-> raw,
                    disparity |-> FixedPointToPixels(raw),
                    parameters_on_entry |-> sgbm]
        /\ UNCHANGED <<bm, sgbm>>
        /\ MethodsRest

MethodsNext ==
    \/ BM_set_value
    \/ SGBM_set_value
    \/ SGBM_set_index
    \/ BM_reset_defaults
    \/ SGBM_reset_defaults
    \/ BM_compute_disparity
    \/ SGBM_compute_disparity

SpecMethods == MethodsInit /\ [][MethodsNext]_vars

(***************************************************************************)
(* Claims about the parameters and the block matchers.                     *)
(***************************************************************************)
\* C7: StereoBMMethod.compute_disparity hands the matcher the current value
\* of each of the nine parameters before running it exactly once, the block
\* size it hands over is odd, the result is the raw output divided by 16,
\* and no parameter value changes.
C7_BMConfiguresAndScales ==
    pc = "StereoBM.compute_disparity" =>
        /\ last.matcher =
              [numDisparities |-> bm["Num Disparities"].value,
               blockSize |-> bm["Block Size"].value,
               textureThreshold |-> bm["TextureThreshold"].value,
               uniquenessRatio |-> bm["Uniqueness Ratio"].value,
               speckleWindowSize |-> bm["SpeckleWindowSize"].value,
               speckleRange |-> bm["SpeckleRange"].value,
               disp12MaxDiff |-> bm["Disp12MaxDiff"].value,
               preFilterCap |-> bm["PreFilterCap"].value,
               preFilterSize |-> bm["PreFilterSize"].value]
        /\ last.matcher.blockSize % 2 = 1
        /\ last.computes = 1
        /\ last.disparity.sixteenths \in 0..15
        /\ 16 * last.disparity.whole + last.disparity.sixteenths = last.raw
        /\ bm = last.parameters_on_entry

\* compute_disparity ran on parameters that were changed from the defaults
\* and the matcher reported "no match" (-16, that is -1.0 pixels).
C7_Witness ==
    /\ pc = "StereoBM.compute_disparity"
    /\ bm["Block Size"].value = 63
    /\ bm["Num Disparities"].value = 240
    /\ last.raw = -16
    /\ last.disparity = [whole |-> -1, sixteenths |-> 0]

IsOdd(x) == x % 2 = 1

InRange(p, x) == p.min <= x /\ x <= p.max

\* The parameters declared with a validity function, as they are now and
\* as reset_defaults declares them.
ConstrainedParameters ==
    {bm["Block Size"], bm["PreFilterSize"], bm["Num Disparities"],
     sgbm.ints["Block Size"]}

DeclaredConstrained ==
    {StereoBM_reset_defaults["Block Size"],
     StereoBM_reset_defaults["PreFilterSize"],
     StereoBM_reset_defaults["Num Disparities"],
     StereoSGBM_reset_defaults.ints["Block Size"]}

Satisfies(p, v) ==
    /\ InRange(p, v)
    /\ p.to_valid = "odd_only" => IsOdd(v)
    /\ p.to_valid = "multiple_of_16" => v % 16 = 0 /\ v >= 16
    /\ to_valid(p.to_valid, v) = v

\* What set_value stores for each argument of the declared range.
ValidOverRange ==
    \A p \in DeclaredConstrained :
        \A x \in p.min..p.max : Satisfies(p, set_value(p, x).value)

\* C9: after any set_value calls with arguments in [min, max], "Block Size"
\* (BM and SGBM) and "PreFilterSize" are odd and in range, BM "Num
\* Disparities" is a multiple of 16 in 16..256, and odd_only and
\* multiple_of_16 return a stored value unchanged; the same holds of what
\* set_value stores for every argument of the declared ranges.
C9_ValidityKept ==
    /\ \A p \in ConstrainedParameters :
        /\ Satisfies(p, p.value)
        /\ [p EXCEPT !.value = 0] \in {[d EXCEPT !.value = 0] : d \in DeclaredConstrained}
    /\ bm["Num Disparities"].value \in 16..256
    /\ ValidOverRange

\* Even arguments were given to both "Block Size" parameters and an
\* argument that is no multiple of 16 to "Num Disparities".
C9_Witness ==
    /\ calls = 3
    /\ bm["Block Size"].value = 5
    /\ sgbm.ints["Block Size"].value = 63
    /\ bm["Num Disparities"].value = 16

\* C10: P2 > P1 for the defaults and after any set_value calls on "P1" and
\* "P2" within [0, 2000], so whenever compute_disparity configures the
\* matcher.
C10_P2AboveP1 ==
    /\ sgbm.ints["P2"].value > sgbm.ints["P1"].value
    /\ pc = "StereoSGBM.compute_disparity" => last.matcher.P2 > last.matcher.P1

(***************************************************************************)
(* SpecRaft: RaftStereo (raft_stereo.py).  pc names the operation that ran *)
(* last, or is "raised" once an exception has left compute_disparity.      *)
(***************************************************************************)
MaxRaftOps == 4   \* operations on the RaftStereo method explored

\* (rows, cols) of the left images tried; the first is the size of the
\* default "Shape".
InputShapes == {<<480, 640>>, <<100, 200>>}

\* Values the network puts out for a pixel (the disparity is their negative).
NetOutputs == {-7, 2}

\* Model files that may be in the folder before the program starts.
CachedAtStart ==
    {ModelFile("raft-stereo-fast-cpu-480x640.scripted.pt"),
     ModelFile("raft-stereo-middlebury-cpu-480x640.scripted.pt")}

\* utils.download_model(url, path) stores the file at `path`.
download_model(files, url, path) == files \cup {path}

\* raft_stereo.py lines 119-130: _load_model.  The result says which files
\* exist afterwards, what was downloaded and which exception, if any, left
\* the method (urls[...] of a missing key is a KeyError).
load_model(files, path) ==
    IF path \in files
    THEN [files |-> files, downloaded |-> <<>>, exception |-> None]
    ELSE IF path.name \notin DOMAIN urls
         THEN [files |-> files, downloaded |-> <<>>, exception |-> "KeyError"]
         ELSE LET after == download_model(files, urls[path.name], path)
              IN  [files |-> after,
                   downloaded |-> <<urls[path.name]>>,
                   exception |-> IF path \in after THEN None ELSE "AssertionError"]

\* A disparity map: its numpy shape (rows, cols) and the value of a pixel.
DisparityMap(rows, cols, value) == [shape |-> <<rows, cols>>, value |-> value]

\* raft_stereo.py lines 115-117: _process_output negates the network output.
process_output(rows, cols, net_value) == DisparityMap(rows, cols, Ratio(-net_value, 1))

\* cv2.resize(map, dsize) with dsize = (width, height).
cv2_resize(map, dsize) == [map EXCEPT !.shape = <<dsize[2], dsize[1]>>]

\* rescale_to_input handing cv2.resize (height, width) for (width, height).
rescale_to_input_rows_first(disparity_map, left_shape, cols) ==
    IF disparity_map.shape /= left_shape
    THEN LET resized == cv2_resize(disparity_map, <<left_shape[1], left_shape[2]>>)
         IN  [resized EXCEPT !.value = Ratio(@[1] * left_shape[2], @[2] * cols)]
    ELSE disparity_map

\* raft_stereo.py lines 101-104: back to the resolution of the left image.
rescale_to_input(disparity_map, left_shape, cols) ==
    IF disparity_map.shape /= left_shape
    THEN LET resized == cv2_resize(disparity_map, <<left_shape[2], left_shape[1]>>)
         IN  [resized EXCEPT !.value = Ratio(@[1] * left_shape[2], @[2] * cols)]
    ELSE disparity_map

NoMap == DisparityMap(0, 0, Ratio(0, 1))

RaftInit ==
    /\ pc = "__init__"
    /\ raft = RaftStereo_init
    /\ fs \in {{}} \cup {{models_path} \cup c : c \in SUBSET CachedAtStart}
    /\ calls = 0
    /\ last = NoLast
    /\ args = NoArgs
    /\ source = NoSource
    /\ method_list = DefaultMethods
    /\ viz = FALSE
    /\ exit_status = <<>>
    /\ printed = <<>>
    /\ iterLog = <<>>
    /\ frames = 0
    /\ elapsed = 0
    /\ bm = StereoBM_reset_defaults
    /\ sgbm = StereoSGBM_reset_defaults

RaftRest ==
    UNCHANGED <<args, source, method_list, viz, exit_status, printed, iterLog,
                frames, elapsed, bm, sgbm>>

RaftOp ==
    /\ pc /= "raised"
    /\ calls < MaxRaftOps
    /\ calls' = calls + 1

\* EnumParameter.set_index on "Shape".
Raft_set_shape ==
    \E idx \in 0..(Len(ShapeValues) - 1) :
        /\ RaftOp
        /\ pc' = "set_index"
        /\ raft' = [raft EXCEPT !.parameters.Shape = set_index(@, idx)]
        /\ last' = NoLast
        /\ UNCHANGED fs
        /\ RaftRest

\* EnumParameter.set_index on "Model".
Raft_set_model ==
    \E idx \in 0..(Len(ModelValues) - 1) :
        /\ RaftOp
        /\ pc' = "set_index"
        /\ raft' = [raft EXCEPT !.parameters.Model = set_index(@, idx)]
        /\ last' = NoLast
        /\ UNCHANGED fs
        /\ RaftRest

\* raft_stereo.py lines 69-106: compute_disparity on a left image of shape
\* `left_shape`, the network putting out `net_value`.  `last` records the
\* model file asked for, whether it was there on entry, what was
\* downloaded, the exception that left the call if any, and the map.
Raft_compute_disparity ==
    \E left_shape \in InputShapes : \E net_value \in NetOutputs :
        LET files0 == fs \cup {models_path}
            size == target_size(raft.parameters)
            cols == size[1]
            rows == size[2]
            variant == enum_value(raft.parameters.Model)
            path == ModelFile(model_file_name(variant, cols, rows))
            loaded == load_model(files0, path)
            out == process_output(rows, cols, net_value)
            done == [op |-> "RaftStereo.compute_disparity",
                     model_path |-> path,
                     present_on_entry |-> path \in fs,
                     downloaded |-> loaded.downloaded,
                     exception |-> loaded.exception,
                     left_shape |-> left_shape,
                     net_value |-> net_value,
                     disparity_map |-> NoMap]
        IN  /\ RaftOp
            /\ fs' = loaded.files
            /\ IF loaded.exception /= None
               THEN /\ pc' = "raised"
                    /\ raft' = raft
                    /\ last' = done
               ELSE /\ pc' = "RaftStereo.compute_disparity"
                    /\ raft' = [raft EXCEPT
                                  !.loaded_model_path = path,
                                  !.net = path,
                                  !.download_log = @ \o loaded.downloaded]
                    /\ last' = [done EXCEPT !.disparity_map =
                                   rescale_to_input(out, left_shape, cols)]
            /\ RaftRest

RaftNext == Raft_set_shape \/ Raft_set_model \/ Raft_compute_disparity

SpecRaft == RaftInit /\ [][RaftNext]_vars

(***************************************************************************)
(* Claims about RaftStereo.                                                *)
(***************************************************************************)
RaftCalled == last.op = "RaftStereo.compute_disparity"

\* (cols, rows) of each "Shape" text, in the order of the parameter.
ShapeSizes == << <<160, 128>>, <<320, 256>>, <<640, 480>>, <<1280, 736>> >>

CurrentSize == ShapeSizes[raft.parameters.Shape.index + 1]

\* C6: for every selectable Model and Shape, _load_model downloads the file
\* from its registered URL if and only if it is absent, the file exists
\* when it returns, no file is downloaded twice, and the file name of
\* Shape 'WxH' is 'raft-stereo-<model>-<H>x<W>.scripted.pt', a key of the
\* URL table.
C6_DownloadsIffAbsent ==
    RaftCalled =>
        /\ last.model_path.name
              = "raft-stereo-" \o ModelValues[raft.parameters.Model.index + 1] \o "-"
                  \o ToString(CurrentSize[2]) \o "x" \o ToString(CurrentSize[1])
                  \o ".scripted.pt"
        /\ last.model_path.name \in DOMAIN urls
        /\ last.exception = None
        /\ last.model_path \in fs
        /\ (last.downloaded /= <<>>) <=> ~last.present_on_entry
        /\ last.downloaded /= <<>> => last.downloaded = <<urls[last.model_path.name]>>
        /\ \A i, j \in 1..Len(raft.download_log) :
              raft.download_log[i] = raft.download_log[j] => i = j

\* C8: the map compute_disparity returns has the height and width of the
\* left image for every "Shape"; when the network's output size differs it
\* was resized and its values multiplied by input_width / processed_width,
\* otherwise it is returned unscaled.
C8_MapHasInputSize ==
    pc = "RaftStereo.compute_disparity" =>
        LET cols == CurrentSize[1]
            rows == CurrentSize[2]
            m == last.disparity_map
        IN  /\ m.shape = last.left_shape
            /\ IF <<rows, cols>> /= last.left_shape
               THEN SameRatio(m.value, Ratio(-last.net_value * last.left_shape[2], cols))
               ELSE m.value = Ratio(-last.net_value, 1)

\* A map was returned for a left image whose size differs from the size
\* the network processed, after "Shape" was changed.
C8_Witness ==
    /\ pc = "RaftStereo.compute_disparity"
    /\ raft.parameters.Shape.index = 3
    /\ last.left_shape = <<100, 200>>
    /\ last.disparity_map = DisparityMap(100, 200, Ratio(7 * 200, 1280))

====
